---- MODULE Spec2Model ----
(***************************************************************************)
(* seqmut: a sequence lock (RWMutex) made of a sync.Mutex and an atomic    *)
(* sequence counter, together with the HammerRWMutex harness that drives   *)
(* it: two writer goroutines and numReaders optimisticReader goroutines.   *)
(*                                                                         *)
(* Every atomic operation of the code (atomic.LoadUint64, atomic.AddUint64,*)
(* atomic.LoadInt32, atomic.AddInt32, Mutex.Lock, Mutex.Unlock) is one     *)
(* step; the goroutines interleave arbitrarily.  The comparisons inside    *)
(* Ok() touch only the caller's own stamp, so Ok() is one step taken at    *)
(* its atomic load.                                                        *)
(*                                                                         *)
(* The 64-bit sequence is modelled SeqBits wide, with the same silent      *)
(* wraparound.  As in the harness (at most 4000 increments of a 64-bit     *)
(* counter), the writers perform fewer increments in total                 *)
(* (4 * numIterations) than the counter has values, so the sequence never  *)
(* returns to a value a reader still holds as its stamp.                   *)
(***************************************************************************)
EXTENDS Integers, FiniteSets, Sequences

\* Width of the sequence counter in the model (uint64 in the code).
SeqBits == 3

\* Number of optimisticReader goroutines HammerRWMutex starts.
numReaders == 2

\* Iterations of every writer and every reader.
numIterations == 1

\* What a writer adds to activity while it is inside its critical section.
ActiveWriter == 10000

Modulus == 2 ^ SeqBits

MaxUint64 == Modulus - 1

\* HammerRWMutex starts exactly two writers.
Writers == {"w1", "w2"}

Readers == 1 .. numReaders

\* HammerRWMutex refuses an odd initial sequence.
InitialSequences == {s \in 0 .. MaxUint64 : s % 2 = 0}

VARIABLES
    sequence,        \* rw.sequence
    mut,             \* rw.mut: TRUE when locked
    activity,        \* the guarded value of the harness
    panicked,        \* a goroutine has panicked
    initialSequence, \* the seed HammerRWMutex was given
    wpc,             \* writers: position in the code
    wi,              \* writers: loop counter i
    rpc,             \* readers: position in the code
    ri,              \* readers: loop counter i
    stamp,           \* readers: *stamp
    n1,              \* readers: first read of activity
    n2,              \* readers: second read of activity
    oks,             \* readers: the branches the first two Ok() calls of this
                     \* iteration returned from
    wov              \* readers: writer events that overlap the open window

vars == <<sequence, mut, activity, panicked, initialSequence, wpc, wi,
          rpc, ri, stamp, n1, n2, oks, wov>>

wvars == <<wpc, wi>>

rvars == <<rpc, ri, stamp, n1, n2, oks>>

\* An increment that stops at MaxUint64 instead of wrapping.
AddUint64Wrong(s) == IF s = MaxUint64 THEN MaxUint64 ELSE s + 1

\* An increment by two.
AddUint64Twice(s) == (s + 2) % Modulus

\* atomic.AddUint64(&rw.sequence, 1): wraps silently.
AddUint64(s) == (s + 1) % Modulus

\* A writer between the increment of Lock() and the increment of Unlock().
InCS == {"add", "sub", "Unlock"}

WriterActive == \E w \in Writers : wpc[w] \in InCS

\* A reader window opens at the sequence load of RStamp() or of a failed Ok().
OpenWindow == IF WriterActive THEN {"activeAtLoad"} ELSE {}

\* The readers whose window is open: between a sequence load and the next Ok().
Reading == {r \in Readers : rpc[r] \in {"load1", "load2", "Ok"}}

\* An Ok() without the test of the stamp's parity.
OkIgnoresOddStamp(st, current) ==
    IF current # st
    THEN [ok |-> FALSE, stamp |-> current, branch |-> "changed"]
    ELSE [ok |-> TRUE, stamp |-> st, branch |-> "true"]

\* An Ok() whose odd-stamp branch does not refresh the stamp.
OkKeepsStamp(st, current) ==
    IF st % 2 = 1
    THEN [ok |-> FALSE, stamp |-> st, branch |-> "odd"]
    ELSE IF current # st
         THEN [ok |-> FALSE, stamp |-> current, branch |-> "changed"]
         ELSE [ok |-> TRUE, stamp |-> st, branch |-> "true"]

\* An Ok() that takes a change of the sequence to be a growth.
OkExpectsGrowth(st, current) ==
    IF st % 2 = 1
    THEN [ok |-> FALSE, stamp |-> current, branch |-> "odd"]
    ELSE IF current > st
         THEN [ok |-> FALSE, stamp |-> current, branch |-> "changed"]
         ELSE [ok |-> TRUE, stamp |-> st, branch |-> "true"]

\* An Ok() that looks only at the parity of the sequence it loads.
OkTestsCurrentOnly(st, current) ==
    IF current % 2 = 1
    THEN [ok |-> FALSE, stamp |-> current, branch |-> "odd"]
    ELSE [ok |-> TRUE, stamp |-> st, branch |-> "true"]

\* The branches of Ok(): what it returns and what it leaves in *stamp.
OkResult(st, current) ==
    IF st % 2 = 1
    THEN [ok |-> FALSE, stamp |-> current, branch |-> "odd"]
    ELSE IF current # st
         THEN [ok |-> FALSE, stamp |-> current, branch |-> "changed"]
         ELSE [ok |-> TRUE, stamp |-> st, branch |-> "true"]

Init ==
    /\ initialSequence \in InitialSequences
    /\ sequence = initialSequence
    /\ mut = FALSE
    /\ activity = 0
    /\ panicked = FALSE
    /\ wpc = [w \in Writers |-> IF numIterations > 0 THEN "Lock" ELSE "done"]
    /\ wi = [w \in Writers |-> 0]
    /\ rpc = [r \in Readers |-> IF numIterations > 0 THEN "RStamp" ELSE "done"]
    /\ ri = [r \in Readers |-> 0]
    /\ stamp = [r \in Readers |-> 0]
    /\ n1 = [r \in Readers |-> 0]
    /\ n2 = [r \in Readers |-> 0]
    /\ oks = [r \in Readers |-> <<>>]
    /\ wov = [r \in Readers |-> {}]

----------------------------------------------------------------------------
\* Writers

\* A mutex that lets every caller in.
MutexFreeWrong == TRUE

\* rw.mut.Lock() can return only when the mutex is free.
MutexFree == ~mut

\* A Lock() that increments already when it takes the mutex.
Lock_mut_Increments(w) ==
    /\ ~panicked
    /\ wpc[w] = "Lock"
    /\ MutexFree
    /\ mut' = TRUE
    /\ sequence' = AddUint64(sequence)
    /\ wpc' = [wpc EXCEPT ![w] = "Lock_inc"]
    /\ UNCHANGED <<activity, panicked, initialSequence, wi, wov>>
    /\ UNCHANGED rvars

\* Lock(): rw.mut.Lock()
Lock_mut(w) ==
    /\ ~panicked
    /\ wpc[w] = "Lock"
    /\ MutexFree
    /\ mut' = TRUE
    /\ wpc' = [wpc EXCEPT ![w] = "Lock_inc"]
    /\ UNCHANGED <<sequence, activity, panicked, initialSequence, wi, wov>>
    /\ UNCHANGED rvars

\* Lock() without its increment.
Lock_inc_NoIncrement(w) ==
    /\ ~panicked
    /\ wpc[w] = "Lock_inc"
    /\ wpc' = [wpc EXCEPT ![w] = "add"]
    /\ UNCHANGED <<sequence, mut, activity, panicked, initialSequence, wi, wov>>
    /\ UNCHANGED rvars

\* Lock(): atomic.AddUint64(&rw.sequence, 1); Lock() returns.
Lock_inc(w) ==
    /\ ~panicked
    /\ wpc[w] = "Lock_inc"
    /\ sequence' = AddUint64(sequence)
    /\ wpc' = [wpc EXCEPT ![w] = "add"]
    /\ wov' = [r \in Readers |->
                 IF r \in Reading THEN wov[r] \cup {"lockInc"} ELSE wov[r]]
    /\ UNCHANGED <<mut, activity, panicked, initialSequence, wi>>
    /\ UNCHANGED rvars

\* writer: n := atomic.AddInt32(activity, 10000); panic unless n = 10000.
writer_add(w) ==
    /\ ~panicked
    /\ wpc[w] = "add"
    /\ activity' = activity + ActiveWriter
    /\ panicked' = (activity' # ActiveWriter)
    /\ wpc' = [wpc EXCEPT ![w] = "sub"]
    /\ UNCHANGED <<sequence, mut, initialSequence, wi, wov>>
    /\ UNCHANGED rvars

\* writer: atomic.AddInt32(activity, -10000); Unlock() is called next.
writer_sub(w) ==
    /\ ~panicked
    /\ wpc[w] = "sub"
    /\ activity' = activity - ActiveWriter
    /\ wpc' = [wpc EXCEPT ![w] = "Unlock"]
    /\ UNCHANGED <<sequence, mut, panicked, initialSequence, wi, wov>>
    /\ UNCHANGED rvars

\* An Unlock() that releases the mutex before it increments.
Unlock_inc_ReleaseFirst(w) ==
    /\ ~panicked
    /\ wpc[w] = "Unlock"
    /\ mut' = FALSE
    /\ wpc' = [wpc EXCEPT ![w] = "Unlock_mut"]
    /\ UNCHANGED <<sequence, activity, panicked, initialSequence, wi, wov>>
    /\ UNCHANGED rvars

\* Unlock() without its increment.
Unlock_inc_NoIncrement(w) ==
    /\ ~panicked
    /\ wpc[w] = "Unlock"
    /\ wpc' = [wpc EXCEPT ![w] = "Unlock_mut"]
    /\ UNCHANGED <<sequence, mut, activity, panicked, initialSequence, wi, wov>>
    /\ UNCHANGED rvars

\* Unlock(): atomic.AddUint64(&rw.sequence, 1)
Unlock_inc(w) ==
    /\ ~panicked
    /\ wpc[w] = "Unlock"
    /\ sequence' = AddUint64(sequence)
    /\ wpc' = [wpc EXCEPT ![w] = "Unlock_mut"]
    /\ wov' = [r \in Readers |->
                 IF r \in Reading
                 THEN wov[r] \cup {"unlockInc"}
                             \cup (IF sequence' < sequence THEN {"wrap"} ELSE {})
                 ELSE wov[r]]
    /\ UNCHANGED <<mut, activity, panicked, initialSequence, wi>>
    /\ UNCHANGED rvars

\* Unlock() without the release of the mutex.
Unlock_mut_NoRelease(w) ==
    /\ ~panicked
    /\ wpc[w] = "Unlock_mut"
    /\ wi' = [wi EXCEPT ![w] = wi[w] + 1]
    /\ wpc' = [wpc EXCEPT ![w] = IF wi'[w] < numIterations THEN "Lock" ELSE "done"]
    /\ UNCHANGED <<sequence, mut, activity, panicked, initialSequence, wov>>
    /\ UNCHANGED rvars

\* Unlock(): rw.mut.Unlock(); then the writer's loop test.
Unlock_mut(w) ==
    /\ ~panicked
    /\ wpc[w] = "Unlock_mut"
    /\ mut' = FALSE
    /\ wi' = [wi EXCEPT ![w] = wi[w] + 1]
    /\ wpc' = [wpc EXCEPT ![w] = IF wi'[w] < numIterations THEN "Lock" ELSE "done"]
    /\ UNCHANGED <<sequence, activity, panicked, initialSequence, wov>>
    /\ UNCHANGED rvars

----------------------------------------------------------------------------
\* Readers

\* An RStamp() that takes its load under the mutex, as a read lock would.
RStamp_UnderMutex(r) ==
    /\ ~panicked
    /\ rpc[r] = "RStamp"
    /\ MutexFree
    /\ stamp' = [stamp EXCEPT ![r] = sequence]
    /\ wov' = [wov EXCEPT ![r] = OpenWindow]
    /\ rpc' = [rpc EXCEPT ![r] = "load1"]
    /\ UNCHANGED <<sequence, mut, activity, panicked, initialSequence>>
    /\ UNCHANGED <<ri, n1, n2, oks>>
    /\ UNCHANGED wvars

\* An RStamp() that locks the mutex for the reader.
RStamp_TakesMutex(r) ==
    /\ ~panicked
    /\ rpc[r] = "RStamp"
    /\ MutexFree
    /\ mut' = TRUE
    /\ stamp' = [stamp EXCEPT ![r] = sequence]
    /\ wov' = [wov EXCEPT ![r] = OpenWindow]
    /\ rpc' = [rpc EXCEPT ![r] = "load1"]
    /\ UNCHANGED <<sequence, activity, panicked, initialSequence>>
    /\ UNCHANGED <<ri, n1, n2, oks>>
    /\ UNCHANGED wvars

\* An RStamp() that returns one more than the sequence it loaded.
RStamp_Ahead(r) ==
    /\ ~panicked
    /\ rpc[r] = "RStamp"
    /\ stamp' = [stamp EXCEPT ![r] = AddUint64(sequence)]
    /\ wov' = [wov EXCEPT ![r] = OpenWindow]
    /\ rpc' = [rpc EXCEPT ![r] = "load1"]
    /\ UNCHANGED <<sequence, mut, activity, panicked, initialSequence>>
    /\ UNCHANGED <<ri, n1, n2, oks>>
    /\ UNCHANGED wvars

\* stamp := rwm.RStamp()
RStamp(r) ==
    /\ ~panicked
    /\ rpc[r] = "RStamp"
    /\ stamp' = [stamp EXCEPT ![r] = sequence]
    /\ wov' = [wov EXCEPT ![r] = OpenWindow]
    /\ rpc' = [rpc EXCEPT ![r] = "load1"]
    /\ UNCHANGED <<sequence, mut, activity, panicked, initialSequence>>
    /\ UNCHANGED <<ri, n1, n2, oks>>
    /\ UNCHANGED wvars

\* n1 = atomic.LoadInt32(activity)
reader_load1(r) ==
    /\ ~panicked
    /\ rpc[r] = "load1"
    /\ n1' = [n1 EXCEPT ![r] = activity]
    /\ rpc' = [rpc EXCEPT ![r] = "load2"]
    /\ UNCHANGED <<sequence, mut, activity, panicked, initialSequence>>
    /\ UNCHANGED <<ri, stamp, n2, oks, wov>>
    /\ UNCHANGED wvars

\* n2 = atomic.LoadInt32(activity)
reader_load2(r) ==
    /\ ~panicked
    /\ rpc[r] = "load2"
    /\ n2' = [n2 EXCEPT ![r] = activity]
    /\ rpc' = [rpc EXCEPT ![r] = "Ok"]
    /\ UNCHANGED <<sequence, mut, activity, panicked, initialSequence>>
    /\ UNCHANGED <<ri, stamp, n1, oks, wov>>
    /\ UNCHANGED wvars

\* if rwm.Ok(stamp) { break }
\* When Ok() fails the loop overwrites n1 and n2 before it reads them again:
\* An Ok() whose stamp is one cell shared by all readers.
Ok_SharedStamp(r) ==
    /\ ~panicked
    /\ rpc[r] = "Ok"
    /\ LET res == OkResult(stamp[r], sequence)
       IN /\ stamp' = [q \in Readers |-> IF q = r \/ ~res.ok THEN res.stamp ELSE stamp[q]]
          /\ oks' = [oks EXCEPT ![r] = IF Len(oks[r]) < 2
                                        THEN Append(oks[r], res.branch)
                                        ELSE oks[r]]
          /\ rpc' = [rpc EXCEPT ![r] = IF res.ok THEN "check" ELSE "load1"]
          /\ wov' = [wov EXCEPT ![r] = IF res.ok THEN wov[r] ELSE OpenWindow]
          /\ n1' = [n1 EXCEPT ![r] = IF res.ok THEN n1[r] ELSE 0]
          /\ n2' = [n2 EXCEPT ![r] = IF res.ok THEN n2[r] ELSE 0]
    /\ UNCHANGED <<sequence, mut, activity, panicked, initialSequence, ri>>
    /\ UNCHANGED wvars

\* the dead values are cleared.
Ok(r) ==
    /\ ~panicked
    /\ rpc[r] = "Ok"
    /\ LET res == OkResult(stamp[r], sequence)
       IN /\ stamp' = [stamp EXCEPT ![r] = res.stamp]
          /\ oks' = [oks EXCEPT ![r] = IF Len(oks[r]) < 2
                                        THEN Append(oks[r], res.branch)
                                        ELSE oks[r]]
          /\ rpc' = [rpc EXCEPT ![r] = IF res.ok THEN "check" ELSE "load1"]
          /\ wov' = [wov EXCEPT ![r] = IF res.ok THEN wov[r] ELSE OpenWindow]
          /\ n1' = [n1 EXCEPT ![r] = IF res.ok THEN n1[r] ELSE 0]
          /\ n2' = [n2 EXCEPT ![r] = IF res.ok THEN n2[r] ELSE 0]
    /\ UNCHANGED <<sequence, mut, activity, panicked, initialSequence, ri>>
    /\ UNCHANGED wvars

\* if n1 != 0 || n2 != 0 { panic }; then the reader's loop test.
reader_check(r) ==
    /\ ~panicked
    /\ rpc[r] = "check"
    /\ panicked' = (n1[r] # 0 \/ n2[r] # 0)
    /\ ri' = [ri EXCEPT ![r] = ri[r] + 1]
    /\ rpc' = [rpc EXCEPT ![r] = IF ri'[r] < numIterations THEN "RStamp" ELSE "done"]
    /\ n1' = [n1 EXCEPT ![r] = 0]
    /\ n2' = [n2 EXCEPT ![r] = 0]
    /\ oks' = [oks EXCEPT ![r] = <<>>]
    /\ wov' = [wov EXCEPT ![r] = {}]
    /\ stamp' = [stamp EXCEPT ![r] = 0]
    /\ UNCHANGED <<sequence, mut, activity, initialSequence>>
    /\ UNCHANGED wvars

----------------------------------------------------------------------------

\* func writer: the loop body, step by step.
writer(w) ==
    \/ Lock_mut(w)
    \/ Lock_inc(w)
    \/ writer_add(w)
    \/ writer_sub(w)
    \/ Unlock_inc(w)
    \/ Unlock_mut(w)

\* func optimisticReader: the loop body, step by step.
optimisticReader(r) ==
    \/ RStamp(r)
    \/ reader_load1(r)
    \/ reader_load2(r)
    \/ Ok(r)
    \/ reader_check(r)

\* A panic ends the program: every step requires ~panicked.
Next ==
    \/ \E w \in Writers : Lock_mut(w)
    \/ \E w \in Writers : Lock_inc(w)
    \/ \E w \in Writers : writer_add(w)
    \/ \E w \in Writers : writer_sub(w)
    \/ \E w \in Writers : Unlock_inc(w)
    \/ \E w \in Writers : Unlock_mut(w)
    \/ \E r \in Readers : RStamp(r)
    \/ \E r \in Readers : reader_load1(r)
    \/ \E r \in Readers : reader_load2(r)
    \/ \E r \in Readers : Ok(r)
    \/ \E r \in Readers : reader_check(r)

Spec == Init /\ [][Next]_vars

\* The scheduler runs every goroutine that can take a step; a writer waiting
\* in rw.mut.Lock() gets the mutex once it stays free.
\* The seeds of the tests: 0 (TestRWMutex) and MaxUint64 - 1
\* (TestRWMutex_SequenceWrapAround, short mode).
FairInit == Init /\ initialSequence \in {0, MaxUint64 - 1}

FairSpec ==
    /\ FairInit
    /\ [][Next]_vars
    /\ \A w \in Writers : WF_vars(writer(w))
    /\ \A r \in Readers : WF_vars(optimisticReader(r))

----------------------------------------------------------------------------
\* Unlock() by a caller that has not called Lock()

\* Unlock() called by writer w in place of Lock(), while no writer holds the
\* mutex: atomic.AddUint64(&rw.sequence, 1) comes first.
Misuse_Unlock_inc(w) ==
    /\ ~panicked
    /\ wpc[w] = "Lock"
    /\ ~mut
    /\ sequence' = AddUint64(sequence)
    /\ wpc' = [wpc EXCEPT ![w] = "Misuse_Unlock_mut"]
    /\ wov' = [r \in Readers |->
                 IF r \in Reading THEN wov[r] \cup {"misuse"} ELSE wov[r]]
    /\ UNCHANGED <<mut, activity, panicked, initialSequence, wi>>
    /\ UNCHANGED rvars

\* Then rw.mut.Unlock(): sync.Mutex raises "fatal error: sync: unlock of
\* unlocked mutex" when the mutex is free, and ends the program; it keeps no
\* owner, so when another writer has locked the mutex meanwhile it is released.
Misuse_Unlock_mut(w) ==
    /\ ~panicked
    /\ wpc[w] = "Misuse_Unlock_mut"
    /\ panicked' = ~mut
    /\ mut' = FALSE
    /\ wpc' = [wpc EXCEPT ![w] = "done"]
    /\ UNCHANGED <<sequence, activity, initialSequence, wi, wov>>
    /\ UNCHANGED rvars

MisuseNext ==
    \/ Next
    \/ \E w \in Writers : Misuse_Unlock_inc(w)
    \/ \E w \in Writers : Misuse_Unlock_mut(w)

\* A fresh RWMutex (sequence 0), used by goroutines of which any may call
\* Unlock() without Lock().
MisuseInit == Init /\ initialSequence = 0

MisuseSpec == MisuseInit /\ [][MisuseNext]_vars

----------------------------------------------------------------------------
\* Properties

Inside == {w \in Writers : wpc[w] \in InCS}

\* The sequence has wrapped past MaxUint64 (the writers make fewer than
\* Modulus increments in all).
Wrapped == sequence < initialSequence

\* C1: writer mutual exclusion.  At most one writer is between the return of
\* its Lock() and its call of Unlock(); the counter that writers raise on
\* entering and lower on leaving is that of one writer at most, it is 0
\* whenever no writer is inside, and the writer's own check never panics.
C1_WriterMutualExclusion ==
    /\ Cardinality(Inside) <= 1
    /\ activity \in {0, ActiveWriter}
    /\ (Inside = {} => activity = 0)
    /\ (\A w \in Writers : wpc[w] = "sub" => activity = ActiveWriter)
    /\ ~panicked

\* One writer is inside with the counter raised, the other writer is blocked
\* in Lock(), and a reader is in the middle of an attempt.
C1_Witness ==
    \E w \in Writers, v \in Writers, r \in Readers :
        /\ wpc[w] = "sub"
        /\ activity = ActiveWriter
        /\ wpc[v] = "Lock"
        /\ rpc[r] = "load2"

\* C2: reader consistency.  A reader whose Ok() returned true read the
\* baseline 0 in both of its reads of the guarded value; it never saw the
\* marker a writer leaves there during its critical section.
C2_ReaderConsistency ==
    \A r \in Readers : rpc[r] = "check" => n1[r] = 0 /\ n2[r] = 0

\* A reader succeeds on its second Ok(), after an attempt it had to discard,
\* while a writer is again inside with the marker in place.
C2_Witness ==
    \E r \in Readers :
        /\ rpc[r] = "check"
        /\ Len(oks[r]) = 2
        /\ activity = ActiveWriter

\* C3: overlap detection.  An Ok() returns true only for a window that no
\* writer critical section touches: no writer was between its two
\* increments when the window opened, none made its Lock() increment inside
\* the window and none made its Unlock() increment inside it.
C3_OverlapDetection ==
    \A r \in Readers : rpc[r] = "check" => wov[r] = {}

\* A reader's first Ok() found the sequence changed and sent it back, and no
\* writer is active any more: a whole critical section fell in the window.
C3_Witness ==
    \E r \in Readers :
        /\ rpc[r] = "load1"
        /\ oks[r] = <<"changed">>
        /\ stamp[r] = AddUint64(AddUint64(initialSequence))
        /\ ~WriterActive

\* C4: parity invariant.  The sequence is odd exactly when a writer is
\* between the return of Lock() and its call of Unlock(), for every even
\* seed and after the counter has wrapped.
C4_ParityInvariant ==
    (sequence % 2 = 1) <=> WriterActive

\* The counter has wrapped to 0 and a further writer has made it odd again.
C4_Witness ==
    /\ Wrapped
    /\ sequence % 2 = 1
    /\ WriterActive
    /\ \E w \in Writers : wpc[w] = "done"

\* C5: wraparound safety.  Once the counter has wrapped, and for the windows
\* that contain the wrap, Ok() still returns true only for a window no
\* writer touched and only after reads of the baseline; mutual exclusion and
\* parity hold in the wrapped states as before.
C5_WraparoundSafety ==
    /\ \A r \in Readers :
          rpc[r] = "check" /\ (Wrapped \/ stamp[r] > sequence)
              => wov[r] = {} /\ n1[r] = 0 /\ n2[r] = 0
    /\ \A r \in Readers : rpc[r] = "check" => "wrap" \notin wov[r]
    /\ Wrapped => /\ Cardinality(Inside) <= 1
                  /\ ((sequence % 2 = 1) <=> WriterActive)
                  /\ (Inside = {} => activity = 0)

\* A reader whose first window held the wrap was sent back and then
\* succeeded on the wrapped counter.
C5_Witness ==
    \E r \in Readers :
        /\ rpc[r] = "check"
        /\ oks[r] = <<"changed", "true">>
        /\ Wrapped
        /\ stamp[r] = 0

\* The step in which reader r returns from Ok().
OkStep(r) == rpc[r] = "Ok" /\ rpc'[r] # "Ok"

\* C6: no false negative from departed writers.  The first Ok() after an
\* RStamp() returns true when no writer was active at the RStamp() and none
\* has entered Lock()'s increment since, however many critical sections
\* came before.
C6_NoFalseNegative ==
    [][\A r \in Readers :
          OkStep(r) /\ oks[r] = <<>> /\ wov[r] = {} => rpc'[r] = "check"]_vars

\* A reader succeeded at its first Ok() on a stamp that both writers'
\* critical sections precede, while the other reader is in an attempt.
C6_Witness ==
    \E r \in Readers, q \in Readers :
        /\ rpc[r] = "check"
        /\ oks[r] = <<"true">>
        /\ stamp[r] = AddUint64(AddUint64(AddUint64(AddUint64(initialSequence))))
        /\ q # r
        /\ rpc[q] \in {"load1", "load2", "Ok"}

\* C7: stamp taken during a writer.  The first Ok() on a stamp that RStamp()
\* loaded while a writer was active returns false, also when that writer has
\* made its Unlock() increment by then; and when no writer is active at that
\* Ok() and none enters afterwards, the next Ok() returns true.
C7_StampDuringWriter ==
    [][\A r \in Readers :
          OkStep(r) =>
            /\ (oks[r] = <<>> /\ "activeAtLoad" \in wov[r] => rpc'[r] = "load1")
            /\ (oks[r] = <<"odd">> /\ wov[r] = {} => rpc'[r] = "check")]_vars

\* The first Ok() failed on an odd stamp and the second succeeded.
C7_Witness ==
    \E r \in Readers :
        /\ rpc[r] = "check"
        /\ oks[r] = <<"odd", "true">>

AllDone ==
    /\ \A w \in Writers : wpc[w] = "done"
    /\ \A r \in Readers : rpc[r] = "done"

\* C8: liveness under bounded contention.  With writers that make
\* numIterations critical sections each and always go on to Unlock(), under
\* fair scheduling every reader attempt leads to an Ok() that returns true,
\* and every reader and writer runs to completion.
C8_Liveness ==
    /\ \A r \in Readers : (rpc[r] \in {"load1", "load2", "Ok"}) ~> (rpc[r] = "check")
    /\ <>AllDone

\* Everything has finished after all the critical sections were made.
C8_Witness ==
    /\ AllDone
    /\ ~panicked
    /\ \A w \in Writers : wi[w] = numIterations
    /\ \A r \in Readers : ri[r] = numIterations

\* C9: stamp update by Ok().  An Ok() that returns false leaves in the
\* caller's stamp the sequence value it loaded, on the odd-stamp branch as on
\* the changed-sequence branch; an Ok() that returns true leaves the stamp
\* as it was.
C9_StampUpdate ==
    [][\A r \in Readers :
          OkStep(r) =>
            /\ (rpc'[r] = "check" => stamp'[r] = stamp[r])
            /\ (rpc'[r] = "load1" => stamp'[r] = sequence)]_vars

\* An odd stamp failed once and was replaced by the even value loaded then,
\* and a stamp that failed twice holds a value different from the seed.
C9_Witness ==
    \E r \in Readers, q \in Readers :
        /\ rpc[r] = "load1"
        /\ oks[r] = <<"odd">>
        /\ stamp[r] % 2 = 0
        /\ rpc[q] = "load1"
        /\ oks[q] = <<"changed">>
        /\ stamp[q] = sequence

\* The writers that hold rw.mut: past rw.mut.Lock(), not yet past
\* rw.mut.Unlock().
Holders == {w \in Writers : wpc[w] \in {"Lock_inc", "add", "sub", "Unlock", "Unlock_mut"}}

\* C10: readers never block.  In every reachable state a reader that is at
\* RStamp() or at Ok() can take that step, whether a writer holds the mutex
\* or waits for it; the mutex is locked only while a writer holds it, so no
\* reader ever has it, and a writer at rw.mut.Lock() can take it whenever no
\* writer holds it, whatever the readers are doing.
C10_ReadersNeverBlock ==
    /\ \A r \in Readers :
          /\ (rpc[r] = "RStamp" => ENABLED RStamp(r))
          /\ (rpc[r] = "Ok" => ENABLED Ok(r))
    /\ (mut <=> Holders # {})
    /\ Cardinality(Holders) <= 1
    /\ \A w \in Writers : wpc[w] = "Lock" /\ Holders = {} => ENABLED Lock_mut(w)

\* A reader has taken its stamp and another has come back from a failed
\* Ok(), while one writer holds the mutex and the other waits for it.
C10_Witness ==
    \E r \in Readers, q \in Readers, w \in Writers, v \in Writers :
        /\ rpc[r] = "load1"
        /\ oks[r] = <<>>
        /\ stamp[r] % 2 = 1
        /\ rpc[q] = "load1"
        /\ oks[q] = <<"odd">>
        /\ wpc[w] = "sub"
        /\ wpc[v] = "Lock"
        /\ mut

\* C11: Unlock() misuse.  An Unlock() called while no writer holds the lock
\* leaves the sequence as it was: the sequence is never odd while no writer
\* is active.
C11_UnlockMisuse ==
    (sequence % 2 = 1) => WriterActive

\* The step leaves reader r inside one window.
StaysInWindow(r) == r \in Reading /\ rpc'[r] \in {"load1", "load2", "Ok"}

\* C12: no torn snapshot.  The values a reader reads in an attempt whose
\* Ok() returns true all come from one state of the guarded resource, in
\* which no writer was active: in a window no writer event has touched, no
\* step changes the resource or has a writer active, and Ok() returns true
\* only for such a window, with both values read equal to the resource as it
\* then is.
C12_NoTornSnapshot ==
    /\ [][\A r \in Readers :
            StaysInWindow(r) /\ wov'[r] = {}
                => activity' = activity /\ ~WriterActive /\ ~WriterActive']_vars
    /\ [][\A r \in Readers :
            OkStep(r) /\ rpc'[r] = "check"
                => /\ wov[r] = {}
                   /\ ~WriterActive
                   /\ n1[r] = activity
                   /\ n2[r] = activity]_vars

\* A reader succeeded on its second attempt, after a critical section fell
\* into its first, while the other reader holds the marker as its first value.
C12_Witness ==
    \E r \in Readers, q \in Readers :
        /\ rpc[r] = "check"
        /\ oks[r] = <<"changed", "true">>
        /\ n1[r] = 0
        /\ n2[r] = 0
        /\ rpc[q] = "load2"
        /\ n1[q] = ActiveWriter

\* C14: while a writer is active every Ok() returns false, on a stamp taken
\* before that writer's Lock() as on one taken after it, at every retry.
C14_FalseWhileWriterActive ==
    [][\A r \in Readers : OkStep(r) /\ WriterActive => rpc'[r] = "load1"]_vars

\* Only one critical section has ever begun and its writer is still active;
\* one reader, stamped before it, has failed twice, and the other, stamped
\* during it, has failed twice as well.
C14_Witness ==
    \E r \in Readers, q \in Readers, w \in Writers :
        /\ wpc[w] \in InCS
        /\ \A v \in Writers : wi[v] = 0 /\ (v # w => wpc[v] = "Lock")
        /\ rpc[r] = "load1"
        /\ oks[r] = <<"changed", "odd">>
        /\ rpc[q] = "load1"
        /\ oks[q] = <<"odd", "odd">>

\* Critical sections whose two increments have both been made.
Pairs == wi["w1"] + wi["w2"] + Cardinality({w \in Writers : wpc[w] = "Unlock_mut"})

\* C15: the sequence changes only by increments of 1 modulo 2^w, each made
\* by the writer that holds the mutex, in its Lock() or in its Unlock(); no
\* other step changes it, and the sequence is the seed plus 2 for every
\* completed pair plus 1 for the writer inside.
C15_IncrementsOnly ==
    /\ [][sequence' # sequence =>
            /\ sequence' = (sequence + 1) % Modulus
            /\ mut
            /\ \E w \in Writers :
                  /\ wpc[w] \in {"Lock_inc", "Unlock"}
                  /\ wpc'[w] = (IF wpc[w] = "Lock_inc" THEN "add" ELSE "Unlock_mut")
                  /\ \A v \in Writers \ {w} : wpc'[v] = wpc[v]
            /\ rpc' = rpc]_vars
    /\ [](sequence = (initialSequence + 2 * Pairs + Cardinality(Inside)) % Modulus)

\* Both writers have finished and the sequence stands 4 above its seed,
\* past the wrap.
C15_Witness ==
    /\ \A w \in Writers : wpc[w] = "done" /\ wi[w] = numIterations
    /\ sequence = (initialSequence + 4 * numIterations) % Modulus
    /\ Wrapped

\* C16: step order.  Lock() takes the mutex before it increments and
\* Unlock() increments before it releases, so an odd sequence implies a held
\* mutex, and a free mutex an even sequence.
C16_StepOrder ==
    /\ (sequence % 2 = 1 => mut)
    /\ (~mut => sequence % 2 = 0)

\* One writer has incremented in Unlock() and not yet released the mutex:
\* held mutex, even sequence; the other waits.
C16_Witness ==
    \E w \in Writers, v \in Writers :
        /\ wpc[w] = "Unlock_mut"
        /\ wpc[v] = "Lock"
        /\ mut
        /\ sequence % 2 = 0
        /\ sequence # initialSequence

\* The step in which reader r returns from RStamp().
RStampStep(r) == rpc[r] = "RStamp" /\ rpc'[r] # "RStamp"

\* C17: RStamp() and Ok(), whatever Ok() returns, leave the sequence, the
\* mutex, the guarded value and the writers as they are; of the stamps only
\* the caller's own may change.
C17_ReaderFrame ==
    [][\A r \in Readers :
          RStampStep(r) \/ OkStep(r) =>
            /\ sequence' = sequence
            /\ mut' = mut
            /\ activity' = activity
            /\ wpc' = wpc
            /\ wi' = wi
            /\ \A q \in Readers \ {r} : stamp'[q] = stamp[q]]_vars

\* One reader's Ok() returned true and the other's returned false, with the
\* mutex free and the sequence even and past its seed.
C17_Witness ==
    \E r \in Readers, q \in Readers :
        /\ rpc[r] = "check"
        /\ oks[r] = <<"true">>
        /\ rpc[q] = "load1"
        /\ oks[q] = <<"changed">>
        /\ ~mut
        /\ sequence # initialSequence

\* No writer has called Lock().
NoWriterYet == \A w \in Writers : wpc[w] = "Lock" /\ wi[w] = 0

\* C18: readers are independent.  With no writer calling Lock() every
\* reader's first Ok() returns true, whatever the other readers are doing;
\* and one reader's RStamp() or Ok() changes neither another reader's stamp
\* nor what that reader's Ok() would return.
C18_ReadersIndependent ==
    /\ [][\A r \in Readers :
            OkStep(r) /\ NoWriterYet => rpc'[r] = "check" /\ oks'[r] = <<"true">>]_vars
    /\ [][\A r \in Readers :
            RStampStep(r) \/ OkStep(r) =>
              \A q \in Readers \ {r} :
                  /\ stamp'[q] = stamp[q]
                  /\ rpc'[q] = rpc[q]
                  /\ oks'[q] = oks[q]
                  /\ OkResult(stamp'[q], sequence') = OkResult(stamp[q], sequence)]_vars

\* No writer has called Lock() and every reader holds the result true of
\* its first Ok(), all of them still holding their stamps.
C18_Witness ==
    /\ NoWriterYet
    /\ ~mut
    /\ \A r \in Readers : rpc[r] = "check" /\ oks[r] = <<"true">> /\ ri[r] = 0

\* Writers inside Lock() that wait for the mutex.
Waiting == {w \in Writers : wpc[w] = "Lock" /\ mut}

\* C19: a writer waiting in Lock() leaves the sequence unchanged.  Taking
\* the mutex does not change the sequence, every change of the sequence is a
\* step of a writer that holds the mutex, and an Ok() that fails has had an
\* active writer or an increment of a holder in its window.
C19_WaitingWriterFrame ==
    /\ [][\A w \in Writers :
            wpc[w] = "Lock" /\ wpc'[w] # "Lock" => sequence' = sequence]_vars
    /\ [][sequence' # sequence =>
            \E w \in Holders : wpc'[w] # wpc[w] /\ w \notin Waiting]_vars
    /\ [][\A r \in Readers :
            OkStep(r) /\ rpc'[r] = "load1" =>
              wov[r] \cap {"activeAtLoad", "lockInc", "unlockInc"} # {}]_vars

\* One writer waits in Lock() behind the other, which has made both its
\* increments and still holds the mutex, while a reader that stamped after
\* the second increment has Ok() = true.
C19_Witness ==
    \E r \in Readers, w \in Waiting, v \in Writers :
        /\ wpc[v] = "Unlock_mut"
        /\ rpc[r] = "check"
        /\ oks[r] = <<"true">>
        /\ stamp[r] = sequence
        /\ sequence = AddUint64(AddUint64(initialSequence))

\* The readers that hold a stamp.
Live == {r \in Readers : rpc[r] \in {"load1", "load2", "Ok", "check"}}

\* C20: a stamp is a value the sequence has held.  Counted from the seed a
\* live stamp is never ahead of the sequence, so while the counter has not
\* wrapped it lies between the seed and the sequence; and a live stamp is
\* odd only if a writer was active when it was loaded.
C20_StampIsPastSequence ==
    \A r \in Live :
        /\ (stamp[r] - initialSequence) % Modulus <= (sequence - initialSequence) % Modulus
        /\ ~Wrapped => initialSequence <= stamp[r] /\ stamp[r] <= sequence
        /\ stamp[r] % 2 = 1 => "activeAtLoad" \in wov[r]

\* A reader still holds an odd stamp, loaded while a writer was active,
\* after that writer has left; the counter has not wrapped.
C20_Witness ==
    \E r \in Readers :
        /\ rpc[r] \in {"load1", "load2", "Ok"}
        /\ stamp[r] % 2 = 1
        /\ stamp[r] < sequence
        /\ ~WriterActive
        /\ ~Wrapped

====
